---- MODULE Spec2Model ----
(***************************************************************************)
(* Model of the primitive value emitters of wasm-ast                       *)
(* (src/src/emitter/values.rs) over a std::io::Write sink, and of the      *)
(* instruction model (src/src/model/instruction.rs).                       *)
(*                                                                         *)
(* Fixed-width integers and floats are bit patterns kept as sets of one    *)
(* bits, so that 64-bit and 128-bit values stay exact.                     *)
(* A sink is a byte buffer plus the answers it will give to its next       *)
(* write calls; once those are used up it accepts everything (Vec<u8>).    *)
(***************************************************************************)
EXTENDS Integers, Sequences, FiniteSets

VARIABLES
    sink,    \* the caller-supplied output: [buf, script, werr, emits]
    host,    \* width of usize on the build target, in bits
    last,    \* the emitter call that ran last: its inputs, result and sink before
    ncalls,  \* number of emitter calls made on the sink
    procs,   \* emitter calls in progress side by side, each on a sink of its own
    built    \* the model value constructed last, with what it was constructed from

vars == <<sink, host, last, ncalls, procs, built>>

-----------------------------------------------------------------------------
(* Bounds of the model *)

MaxCalls == 1
MaxScript == 2
MaxItems == 4

-----------------------------------------------------------------------------
(* Bit patterns: a fixed-width integer or float is its width and the set of *)
(* its one bits, bit 0 the least significant.                               *)

SetBits(w, S) == [w |-> w, on |-> S]

Min(a, b) == IF a <= b THEN a ELSE b

\* the number held by bits lo .. lo + n - 1 (n at most 8)
RECURSIVE Field(_, _, _)
Field(b, lo, n) ==
    IF n = 0 THEN 0
    ELSE (IF lo \in b.on THEN 1 ELSE 0) + 2 * Field(b, lo + 1, n - 1)

\* a small number as a value of width w
NatToBits(n, w) == [w |-> w, on |-> {i \in 0..Min(w - 1, 30) : (n \div (2 ^ i)) % 2 = 1}]

IsZero(b) == b.on = {}
IsOnes(b) == b.on = 0..(b.w - 1)
Negative(b) == (b.w - 1) \in b.on

\* u32 -> u128, u64 -> u128, usize as u128
ZeroExtend(b, w) == [w |-> w, on |-> b.on]
\* i32 -> i128, i64 -> i128
SignExtend(b, w) == [w |-> w, on |-> IF Negative(b) THEN b.on \cup (b.w..(w - 1)) ELSE b.on]
\* value >>= k on an unsigned integer
ShiftRightLogical(b, k) == [w |-> b.w, on |-> {i - k : i \in {j \in b.on : j >= k}}]
\* value >>= k on a signed integer
ShiftRightArithmetic(b, k) ==
    [w |-> b.w,
     on |-> {i - k : i \in {j \in b.on : j >= k}}
                \cup (IF Negative(b) THEN (b.w - k)..(b.w - 1) ELSE {})]

\* f32::to_le_bytes, f64::to_le_bytes
to_le_bytes(b) == [i \in 1..(b.w \div 8) |-> Field(b, 8 * (i - 1), 8)]

-----------------------------------------------------------------------------
(* Results *)

Ok(n) == [n |-> n, ok |-> TRUE, err |-> "none"]
Err(e) == [n |-> 0, ok |-> FALSE, err |-> e]

-----------------------------------------------------------------------------
(* The sink: std::io::Write *)

Accept(n) == [kind |-> "accept", max |-> n]
AcceptAll == [kind |-> "all", max |-> 0]
Fail == [kind |-> "error", max |-> 0]
Interrupted == [kind |-> "interrupted", max |-> 0]

Responses == {AcceptAll, Accept(0), Accept(1), Fail, Interrupted}

RECURSIVE SeqsUpTo(_, _)
SeqsUpTo(S, n) ==
    IF n = 0 THEN {<<>>}
    ELSE LET shorter == SeqsUpTo(S, n - 1)
         IN shorter \cup {Append(s, x) : s \in {t \in shorter : Len(t) = n - 1}, x \in S}

\* A script that ends in AcceptAll behaves as the script without it.
Scripts == {s \in SeqsUpTo(Responses, MaxScript) : s = <<>> \/ s[Len(s)] # AcceptAll}

\* Write::write had the sink started over at every write instead of appending
write_from_start(out, data) ==
    IF out.script = <<>>
    THEN [out |-> [out EXCEPT !.buf = data], res |-> Ok(Len(data))]
    ELSE LET r == Head(out.script)
             o == [out EXCEPT !.script = Tail(@)]
         IN CASE r.kind = "all" ->
                    [out |-> [o EXCEPT !.buf = data], res |-> Ok(Len(data))]
              [] r.kind = "accept" ->
                    LET n == Min(r.max, Len(data))
                    IN [out |-> [o EXCEPT !.buf = SubSeq(data, 1, n)], res |-> Ok(n)]
              [] r.kind = "interrupted" ->
                    [out |-> o, res |-> Err("Interrupted")]
              [] OTHER ->
                    [out |-> [o EXCEPT !.werr = @ + 1], res |-> Err("Io")]

\* Write::write: one attempt; the sink takes a prefix of data or reports an error.
write(out, data) ==
    IF out.script = <<>>
    THEN [out |-> [out EXCEPT !.buf = @ \o data], res |-> Ok(Len(data))]
    ELSE LET r == Head(out.script)
             o == [out EXCEPT !.script = Tail(@)]
         IN CASE r.kind = "all" ->
                    [out |-> [o EXCEPT !.buf = @ \o data], res |-> Ok(Len(data))]
              [] r.kind = "accept" ->
                    LET n == Min(r.max, Len(data))
                    IN [out |-> [o EXCEPT !.buf = @ \o SubSeq(data, 1, n)], res |-> Ok(n)]
              [] r.kind = "interrupted" ->
                    [out |-> o, res |-> Err("Interrupted")]
              [] OTHER ->
                    [out |-> [o EXCEPT !.werr = @ + 1], res |-> Err("Io")]

\* Write::write_all: write until all of data is taken; a write of zero bytes is
\* an error, an interrupted write is retried, any other error is returned.
RECURSIVE write_all(_, _)
write_all(out, data) ==
    IF data = <<>> THEN [out |-> out, res |-> Ok(0)]
    ELSE LET w == write(out, data)
         IN IF w.res.ok
            THEN IF w.res.n = 0
                 THEN [out |-> w.out, res |-> Err("WriteZero")]
                 ELSE write_all(w.out, SubSeq(data, w.res.n + 1, Len(data)))
            ELSE IF w.res.err = "Interrupted"
                 THEN write_all(w.out, data)
                 ELSE w

-----------------------------------------------------------------------------
(* crate::leb128 *)

\* encode_unsigned: 7 bits per byte, least-significant group first, the
\* continuation bit on every byte but the last, each byte written as produced.
RECURSIVE encode_unsigned_from(_, _, _)
encode_unsigned_from(remaining, out, bytes) ==
    LET low == Field(remaining, 0, 7)
        rest == ShiftRightLogical(remaining, 7)
        byte == IF IsZero(rest) THEN low ELSE low + 128
        w == write_all(out, <<byte>>)
    IN IF ~w.res.ok THEN w
       ELSE IF IsZero(rest) THEN [out |-> w.out, res |-> Ok(bytes + 1)]
       ELSE encode_unsigned_from(rest, w.out, bytes + 1)

encode_unsigned(value, out) == encode_unsigned_from(value, out, 0)

\* encode_signed: the same grouping; a byte is the last one when what remains
\* is all zeros and its bit 6 is clear, or all ones and its bit 6 is set.
RECURSIVE encode_signed_from(_, _, _)
encode_signed_from(remaining, out, bytes) ==
    LET low == Field(remaining, 0, 7)
        rest == ShiftRightArithmetic(remaining, 7)
        done == \/ IsZero(rest) /\ 6 \notin remaining.on
                \/ IsOnes(rest) /\ 6 \in remaining.on
        byte == IF done THEN low ELSE low + 128
        w == write_all(out, <<byte>>)
    IN IF ~w.res.ok THEN w
       ELSE IF done THEN [out |-> w.out, res |-> Ok(bytes + 1)]
       ELSE encode_signed_from(rest, w.out, bytes + 1)

encode_signed(value, out) == encode_signed_from(value, out, 0)

-----------------------------------------------------------------------------
(* src/src/emitter/values.rs *)

\* The write_all result is dropped: the call answers Ok(4) whatever the sink did.
emit_f32(value, out) ==
    LET bytes == to_le_bytes(value)
        w == write_all(out, bytes)
    IN [out |-> w.out, res |-> Ok(Len(bytes))]

emit_f64(value, out) ==
    LET bytes == to_le_bytes(value)
        w == write_all(out, bytes)
    IN [out |-> w.out, res |-> Ok(Len(bytes))]

\* One Write::write call; the number of bytes it took is not looked at.
emit_byte(byte, out) ==
    LET bytes == <<byte>>
        w == write(out, bytes)
    IN IF ~w.res.ok THEN w ELSE [out |-> w.out, res |-> Ok(Len(bytes))]

\* emit_u32 had the value been widened as a signed integer
emit_u32_sign_extended(value, out) == encode_unsigned(SignExtend(value, 128), out)

emit_u32(value, out) == encode_unsigned(ZeroExtend(value, 128), out)

\* emit_usize had the value been cut to 32 bits before widening
emit_usize_truncated(size, out) ==
    encode_unsigned([w |-> 128, on |-> size.on \cap (0..31)], out)

emit_usize(size, out) == encode_unsigned(ZeroExtend(size, 128), out)

emit_u64(value, out) == encode_unsigned(ZeroExtend(value, 128), out)

\* emit_i32 had the value been widened as an unsigned integer
emit_i32_zero_extended(value, out) == encode_signed(ZeroExtend(value, 128), out)

emit_i32(value, out) == encode_signed(SignExtend(value, 128), out)

emit_i64(value, out) == encode_signed(SignExtend(value, 128), out)

\* value.len(): a usize of the host's width
len(value) == NatToBits(Len(value), host)

\* emit_bytes had the raw bytes been handed to a single Write::write
emit_bytes_single_write(value, out, include_length) ==
    LET prefix == IF include_length THEN emit_usize(len(value), out)
                  ELSE [out |-> out, res |-> Ok(0)]
    IN IF ~prefix.res.ok THEN prefix
       ELSE LET w == IF value = <<>> THEN [out |-> prefix.out, res |-> Ok(0)]
                     ELSE write(prefix.out, value)
            IN IF ~w.res.ok THEN w
               ELSE [out |-> w.out, res |-> Ok(prefix.res.n + Len(value))]

emit_bytes(value, out, include_length) ==
    LET prefix == IF include_length THEN emit_usize(len(value), out)
                  ELSE [out |-> out, res |-> Ok(0)]
    IN IF ~prefix.res.ok THEN prefix
       ELSE LET w == write_all(prefix.out, value)
            IN IF ~w.res.ok THEN w
               ELSE [out |-> w.out, res |-> Ok(prefix.res.n + Len(value))]

\* Name::as_bytes: a name is held as its UTF-8 bytes
as_bytes(name) == name.utf8

emit_name(value, out) == emit_bytes(as_bytes(value), out, TRUE)

\* The per-item emit functions a caller passes as `emit`
Emitters == {"emit_byte", "emit_u32", "emit_f32"}

emit_item(emit, item, out) ==
    CASE emit = "emit_byte" -> emit_byte(item, out)
      [] emit = "emit_u32" -> emit_u32(item, out)
      [] emit = "emit_f32" -> emit_f32(item, out)

\* for item in items { bytes += emit(item, output)?; }
\* out.emits records what each invocation of emit returned.
RECURSIVE emit_repeated_from(_, _, _, _)
emit_repeated_from(items, out, emit, bytes) ==
    IF items = <<>> THEN [out |-> out, res |-> Ok(bytes)]
    ELSE LET e == emit_item(emit, Head(items), out)
             o == [e.out EXCEPT !.emits = Append(@, e.res)]
         IN IF ~e.res.ok THEN [out |-> o, res |-> e.res]
            ELSE emit_repeated_from(Tail(items), o, emit, bytes + e.res.n)

emit_repeated(items, out, emit) == emit_repeated_from(items, out, emit, 0)

emit_vector(items, out, emit) ==
    LET prefix == emit_usize(len(items), out)
    IN IF ~prefix.res.ok THEN prefix
       ELSE LET rest == emit_repeated(items, prefix.out, emit)
            IN IF ~rest.res.ok THEN rest
               ELSE [out |-> rest.out, res |-> Ok(prefix.res.n + rest.res.n)]

-----------------------------------------------------------------------------
(* Inputs *)

WordSizes == {32, 64}

\* 0.0, 1.0, a negative NaN with a payload bit
F32Values == {SetBits(32, {}), SetBits(32, 23..29), SetBits(32, {0} \cup (22..31))}
\* 1.0, a NaN with a payload bit
F64Values == {SetBits(64, 52..61), SetBits(64, {0} \cup (51..62))}

\* "", "a", "e with acute accent"
Names == {[utf8 |-> <<>>], [utf8 |-> <<97>>], [utf8 |-> <<195, 169>>]}

ByteValues == {1, 200}
\* the slices are the prefixes of 1, 2, 3, 4, 200, 6, ...
ByteItem(i) == IF i = 5 THEN 200 ELSE i
ByteSlices == {[i \in 1..n |-> ByteItem(i)] : n \in 0..MaxItems}

\* 0, 127, 128, u32::MAX
U32Values == {SetBits(32, {}), SetBits(32, 0..6), SetBits(32, {7}), SetBits(32, 0..31)}
\* 0, 2^35, u64::MAX
U64Values == {SetBits(64, {}), SetBits(64, {35}), SetBits(64, 0..63)}
\* 0, 300, usize::MAX
UsizeValues == {SetBits(host, {}), SetBits(host, {2, 3, 5, 8}), SetBits(host, 0..(host - 1))}
\* 0, -1, 64, i32::MIN
I32Values == {SetBits(32, {}), SetBits(32, 0..31), SetBits(32, {6}), SetBits(32, {31})}
\* 63, -65, i64::MIN
I64Values == {SetBits(64, 0..5), SetBits(64, (0..63) \ {6}), SetBits(64, {63})}

\* u32 items 3, 300, 3, ... and f32 items 1.0, NaN, 1.0, ...
U32Item(i) == IF i % 2 = 1 THEN SetBits(32, {0, 1}) ELSE SetBits(32, {2, 3, 5, 8})
U32Slices == {[i \in 1..n |-> U32Item(i)] : n \in 0..MaxItems}
F32Item(i) == IF i % 2 = 1 THEN SetBits(32, 23..29) ELSE SetBits(32, {0} \cup (22..31))
F32Slices == {[i \in 1..n |-> F32Item(i)] : n \in 0..MaxItems}

Slices(emit) ==
    CASE emit = "emit_byte" -> ByteSlices
      [] emit = "emit_u32" -> U32Slices
      [] emit = "emit_f32" -> F32Slices

-----------------------------------------------------------------------------
(* The state machine: emitter calls on one sink *)

NoCall ==
    [res |-> Ok(0), value |-> <<>>, emit |-> "none", op |-> "none", flag |-> FALSE,
     before |-> [script |-> <<>>, buf |-> <<>>, werr |-> 0, emits |-> <<>>]]

\* the sink as a call finds it: nothing observed of this call yet
Fresh(out) == [out EXCEPT !.werr = 0, !.emits = <<>>]

Init ==
    \* what the caller's sink may hold already: nothing, or one earlier byte
    /\ sink \in [script : Scripts, buf : {<<>>, <<170>>}, werr : {0}, emits : {<<>>}]
    /\ host \in WordSizes
    /\ last = NoCall
    /\ ncalls = 0
    /\ procs = <<>>
    /\ built = [op |-> "none"]

Returned(op, value, flag, emit, r) ==
    /\ ncalls < MaxCalls
    /\ sink' = r.out
    /\ last' = [res |-> r.res, value |-> value, emit |-> emit, op |-> op,
                flag |-> flag, before |-> Fresh(sink)]
    /\ ncalls' = ncalls + 1
    /\ UNCHANGED <<host, procs, built>>

EmitF32 == \E v \in F32Values :
    Returned("emit_f32", v, FALSE, "none", emit_f32(v, Fresh(sink)))

EmitF64 == \E v \in F64Values :
    Returned("emit_f64", v, FALSE, "none", emit_f64(v, Fresh(sink)))

EmitName == \E v \in Names :
    Returned("emit_name", v, FALSE, "none", emit_name(v, Fresh(sink)))

EmitByte == \E v \in ByteValues :
    Returned("emit_byte", v, FALSE, "none", emit_byte(v, Fresh(sink)))

EmitBytes == \E v \in ByteSlices, f \in BOOLEAN :
    Returned("emit_bytes", v, f, "none", emit_bytes(v, Fresh(sink), f))

EmitU32 == \E v \in U32Values :
    Returned("emit_u32", v, FALSE, "none", emit_u32(v, Fresh(sink)))

EmitUsize == \E v \in UsizeValues :
    Returned("emit_usize", v, FALSE, "none", emit_usize(v, Fresh(sink)))

EmitU64 == \E v \in U64Values :
    Returned("emit_u64", v, FALSE, "none", emit_u64(v, Fresh(sink)))

EmitI32 == \E v \in I32Values :
    Returned("emit_i32", v, FALSE, "none", emit_i32(v, Fresh(sink)))

EmitI64 == \E v \in I64Values :
    Returned("emit_i64", v, FALSE, "none", emit_i64(v, Fresh(sink)))

EmitVector == \E e \in Emitters : \E v \in Slices(e) :
    Returned("emit_vector", v, FALSE, e, emit_vector(v, Fresh(sink), e))

EmitRepeated == \E e \in Emitters : \E v \in Slices(e) :
    Returned("emit_repeated", v, FALSE, e, emit_repeated(v, Fresh(sink), e))

Next ==
    \/ EmitF32
    \/ EmitF64
    \/ EmitName
    \/ EmitByte
    \/ EmitBytes
    \/ EmitU32
    \/ EmitUsize
    \/ EmitU64
    \/ EmitI32
    \/ EmitI64
    \/ EmitVector
    \/ EmitRepeated

Spec == Init /\ [][Next]_vars

-----------------------------------------------------------------------------
(* One integer emitter call on a fresh Vec<u8>, over the boundary values of   *)
(* every width: 2^k - 1, 2^k, 2^k + top bit, and for the signed types also    *)
(* -2^k and -2^k - 1.                                                         *)

UnsignedBoundaries(w) ==
    {SetBits(w, 0..(k - 1)) : k \in 0..w}
        \cup {SetBits(w, {k}) : k \in 0..(w - 1)}
        \cup {SetBits(w, {k, w - 1}) : k \in 0..(w - 1)}

SignedBoundaries(w) ==
    UnsignedBoundaries(w)
        \cup {SetBits(w, k..(w - 1)) : k \in 0..(w - 1)}
        \cup {SetBits(w, (0..(w - 1)) \ {k}) : k \in 0..(w - 1)}

InitInt ==
    /\ sink = [script |-> <<>>, buf |-> <<>>, werr |-> 0, emits |-> <<>>]
    /\ host \in WordSizes
    /\ last = NoCall
    /\ ncalls = 0
    /\ procs = <<>>
    /\ built = [op |-> "none"]

ReturnedOnce(op, value, r) ==
    /\ ncalls = 0
    /\ sink' = r.out
    /\ last' = [res |-> r.res, value |-> value, emit |-> "none", op |-> op,
                flag |-> FALSE, before |-> Fresh(sink)]
    /\ ncalls' = 1
    /\ UNCHANGED <<host, procs, built>>

EmitU32Boundary == \E v \in UnsignedBoundaries(32) :
    ReturnedOnce("emit_u32", v, emit_u32(v, Fresh(sink)))

EmitU64Boundary == \E v \in UnsignedBoundaries(64) :
    ReturnedOnce("emit_u64", v, emit_u64(v, Fresh(sink)))

EmitUsizeBoundary == \E v \in UnsignedBoundaries(host) :
    ReturnedOnce("emit_usize", v, emit_usize(v, Fresh(sink)))

EmitI32Boundary == \E v \in SignedBoundaries(32) :
    ReturnedOnce("emit_i32", v, emit_i32(v, Fresh(sink)))

EmitI64Boundary == \E v \in SignedBoundaries(64) :
    ReturnedOnce("emit_i64", v, emit_i64(v, Fresh(sink)))

NextInt ==
    \/ EmitU32Boundary
    \/ EmitU64Boundary
    \/ EmitUsizeBoundary
    \/ EmitI32Boundary
    \/ EmitI64Boundary

SpecInt == InitInt /\ [][NextInt]_vars

-----------------------------------------------------------------------------
(* What the wire format asks for, stated without the emitters *)

\* the bytes the last call appended, and whether it left the earlier bytes alone
Appended == SubSeq(sink.buf, Len(last.before.buf) + 1, Len(sink.buf))
KeptEarlier ==
    /\ Len(sink.buf) >= Len(last.before.buf)
    /\ SubSeq(sink.buf, 1, Len(last.before.buf)) = last.before.buf

Max(a, b) == IF a >= b THEN a ELSE b

\* bit j (from 0) of an unsigned value, of a sign-extended value, of the 7-bit
\* groups of a byte sequence
BitAt(bits, j) == IF j \in bits.on THEN 1 ELSE 0
SignedBitAt(bits, j) == IF j < bits.w THEN BitAt(bits, j) ELSE BitAt(bits, bits.w - 1)
PayloadBit(bytes, j) ==
    IF j < 7 * Len(bytes) THEN (bytes[(j \div 7) + 1] \div (2 ^ (j % 7))) % 2 ELSE 0

\* continuation bit set on every byte but the last
Continued(bytes) ==
    /\ Len(bytes) >= 1
    /\ \A i \in 1..Len(bytes) : bytes[i] \in 0..255
    /\ \A i \in 1..(Len(bytes) - 1) : bytes[i] >= 128
    /\ bytes[Len(bytes)] < 128

IsUnsignedLeb(bytes, bits) ==
    /\ Continued(bytes)
    /\ \A j \in 0..(Max(7 * Len(bytes), bits.w) - 1) : PayloadBit(bytes, j) = BitAt(bits, j)
    /\ IF IsZero(bits) THEN bytes = <<0>> ELSE bytes[Len(bytes)] # 0

\* a signed value fits k groups when every bit from the top bit of group k on is
\* the same: what remains is all zeros with bit 6 clear, or all ones with bit 6 set
FitsGroups(bits, k) ==
    \A j \in (7 * k - 1)..Max(7 * k - 1, bits.w - 1) :
        SignedBitAt(bits, j) = SignedBitAt(bits, 7 * k - 1)

IsSignedLeb(bytes, bits) ==
    /\ Continued(bytes)
    /\ \A j \in 0..(7 * Len(bytes) - 1) : PayloadBit(bytes, j) = SignedBitAt(bits, j)
    /\ FitsGroups(bits, Len(bytes))
    /\ \A k \in 1..(Len(bytes) - 1) : ~FitsGroups(bits, k)

\* the unsigned encoding of a small natural number, by arithmetic
RECURSIVE ULeb(_)
ULeb(n) == IF n < 128 THEN <<n>> ELSE <<(n % 128) + 128>> \o ULeb(n \div 128)

\* the bytes of a bit pattern, lowest byte first
LittleEndian(bits) ==
    [i \in 1..(bits.w \div 8) |->
        LET b(k) == BitAt(bits, 8 * (i - 1) + k)
        IN b(0) + 2 * b(1) + 4 * b(2) + 8 * b(3) + 16 * b(4) + 32 * b(5) + 64 * b(6) + 128 * b(7)]

\* the number a bit pattern below 2^30 stands for
SmallValue(bits) ==
    LET b(k) == BitAt(bits, k)
    IN b(0) + 2 * b(1) + 4 * b(2) + 8 * b(3) + 16 * b(4) + 32 * b(5) + 64 * b(6)
         + 128 * b(7) + 256 * b(8) + 512 * b(9)

ItemEncoding(emit, item) ==
    CASE emit = "emit_byte" -> <<item>>
      [] emit = "emit_u32" -> ULeb(SmallValue(item))
      [] emit = "emit_f32" -> LittleEndian(item)

RECURSIVE ItemEncodings(_, _)
ItemEncodings(emit, items) ==
    IF items = <<>> THEN <<>>
    ELSE ItemEncoding(emit, Head(items)) \o ItemEncodings(emit, Tail(items))

RECURSIVE SumReturned(_)
SumReturned(results) ==
    IF results = <<>> THEN 0 ELSE Head(results).n + SumReturned(Tail(results))

-----------------------------------------------------------------------------
(* Claims *)

\* C1: a successful emit_vector appends the unsigned variable-length encoding
\* of the item count, then each item's encoding in slice order, and returns the
\* number of prefix bytes plus the sum of the counts the per-item emits returned.
C1_VectorFraming ==
    (last.op = "emit_vector" /\ last.res.ok) =>
        /\ KeptEarlier
        /\ Appended = ULeb(Len(last.value)) \o ItemEncodings(last.emit, last.value)
        /\ last.res.n = Len(ULeb(Len(last.value))) + SumReturned(sink.emits)

\* C2: whenever the sink reports a write failure during an emitter call, the
\* call returns an error; no emitter returns Ok after a sink write has failed.
C2_NoSilentIoError == sink.werr > 0 => ~last.res.ok

\* C3: when an emitter returns Ok(n), exactly n bytes were appended to the sink
\* by that call, whatever the sink does.
C3_CountIsSinkEffect ==
    (last.op # "none" /\ last.res.ok) =>
        /\ KeptEarlier
        /\ Len(Appended) = last.res.n

\* C4: emit_bytes(value, out, true) leaves the same sink contents and result as
\* emit_vector(value, out, emit_byte), and emit_bytes(value, out, false) the same
\* as emit_repeated(value, out, emit_byte), for every byte slice and every sink.
C4_BytesIsGenericPath ==
    last.op = "emit_bytes" =>
        LET generic == IF last.flag
                       THEN emit_vector(last.value, last.before, "emit_byte")
                       ELSE emit_repeated(last.value, last.before, "emit_byte")
        IN /\ sink.buf = generic.out.buf
           /\ last.res = generic.res

\* C5: emit_u32 and emit_u64 write the base-128 encoding of the value: 7 data
\* bits per byte, least-significant group first, the continuation bit on every
\* byte except the last, the last byte non-zero unless the value is 0, which is
\* the single byte 0x00.
C5_UnsignedMinimal ==
    (last.op \in {"emit_u32", "emit_u64"} /\ last.res.ok) =>
        /\ KeptEarlier
        /\ IsUnsignedLeb(Appended, last.value)
        /\ last.res.n = Len(Appended)

\* u64::MAX takes ten bytes
C5_Witness ==
    /\ last.op = "emit_u64"
    /\ last.res.ok
    /\ last.value = SetBits(64, 0..63)
    /\ Appended = <<255, 255, 255, 255, 255, 255, 255, 255, 255, 1>>

\* C6: emit_i32 and emit_i64 write the minimal signed base-128 encoding: the
\* output ends at the first byte after which what remains of the sign-extended
\* value is all zeros with that byte's bit 6 clear, or all ones with bit 6 set;
\* -1 is 0x7F, 0 is 0x00, i32::MIN takes 5 bytes and i64::MIN takes 10.
C6_SignedMinimal ==
    (last.op \in {"emit_i32", "emit_i64"} /\ last.res.ok) =>
        /\ KeptEarlier
        /\ IsSignedLeb(Appended, last.value)
        /\ last.res.n = Len(Appended)
        /\ (IsOnes(last.value) => Appended = <<127>>)
        /\ (IsZero(last.value) => Appended = <<0>>)
        /\ (last.value = SetBits(32, {31}) => Len(Appended) = 5)
        /\ (last.value = SetBits(64, {63}) => Len(Appended) = 10)

\* i64::MIN takes ten bytes
C6_Witness ==
    /\ last.op = "emit_i64"
    /\ last.res.ok
    /\ last.value = SetBits(64, {63})
    /\ Appended = <<128, 128, 128, 128, 128, 128, 128, 128, 128, 127>>

\* C7: emit_usize does not depend on the host's word size: a value below 2^32
\* gives the bytes and count of emit_u32, and every value those of emit_u64.
C7_UsizeHostIndependent ==
    last.op = "emit_usize" =>
        /\ last.value.w = host
        /\ (last.value.on \subseteq 0..31 =>
              LET r == emit_u32(SetBits(32, last.value.on), last.before)
              IN r.out.buf = sink.buf /\ r.res = last.res)
        /\ LET r == emit_u64(SetBits(64, last.value.on), last.before)
           IN r.out.buf = sink.buf /\ r.res = last.res

\* a usize of 2^63 + 2^40 on a 64-bit host
C7_Witness ==
    /\ last.op = "emit_usize"
    /\ host = 64
    /\ last.value = SetBits(64, {40, 63})
    /\ last.res = Ok(10)

\* C8: a successful emit_f32 (emit_f64) appends exactly the 4 (8) bytes of the
\* bit pattern in little-endian order, NaN patterns included, and returns 4 (8).
C8_FloatLittleEndian ==
    (last.op \in {"emit_f32", "emit_f64"} /\ last.res.ok) =>
        /\ KeptEarlier
        /\ Appended = LittleEndian(last.value)
        /\ Len(Appended) = (IF last.op = "emit_f32" THEN 4 ELSE 8)
        /\ last.res.n = Len(Appended)

\* C9: a successful emit_name appends the unsigned variable-length encoding of
\* the name's byte length, then the name's raw bytes, and returns prefix length
\* plus byte length; emit_bytes without the length appends only the raw bytes
\* and returns their number.
C9_ByteRun ==
    /\ (last.op = "emit_name" /\ last.res.ok) =>
          /\ KeptEarlier
          /\ Appended = ULeb(Len(last.value.utf8)) \o last.value.utf8
          /\ last.res.n = Len(ULeb(Len(last.value.utf8))) + Len(last.value.utf8)
    /\ (last.op = "emit_bytes" /\ ~last.flag /\ last.res.ok) =>
          /\ KeptEarlier
          /\ Appended = last.value
          /\ last.res.n = Len(last.value)

\* a two-byte name on a sink that takes the name one byte at a time
C9_Witness ==
    /\ last.op = "emit_name"
    /\ last.res = Ok(3)
    /\ last.before.script = <<AcceptAll, Accept(1)>>
    /\ Appended = <<2, 195, 169>>

\* C10: emit_repeated appends only the items' encodings in slice order, with no
\* count prefix, and returns the sum of the per-item counts; for an empty slice
\* it writes nothing, never invokes the per-item emit and returns 0; emit_vector
\* on an empty slice writes the single count byte 0x00 and returns 1.
C10_RepeatedFraming ==
    /\ (last.op = "emit_repeated" /\ last.res.ok) =>
          /\ KeptEarlier
          /\ Appended = ItemEncodings(last.emit, last.value)
          /\ last.res.n = SumReturned(sink.emits)
    /\ (last.op = "emit_repeated" /\ last.value = <<>>) =>
          /\ sink.buf = last.before.buf
          /\ sink.script = last.before.script
          /\ sink.emits = <<>>
          /\ last.res = Ok(0)
    /\ (last.op = "emit_vector" /\ last.value = <<>> /\ last.res.ok) =>
          /\ Appended = <<0>>
          /\ sink.emits = <<>>
          /\ last.res.n = 1

IsPrefix(a, b) == Len(a) <= Len(b) /\ SubSeq(b, 1, Len(a)) = a

\* C18: emit_vector and emit_repeated fail fast: if writing the count prefix
\* fails no per-item emit is invoked; if the emit of item k is the first to
\* fail, the call returns that error, no later item is emitted, and the sink
\* holds the count prefix (emit_vector only), then the complete encodings of
\* the items before k in order, then whatever item k wrote.
C18_FailFast ==
    last.op \in {"emit_vector", "emit_repeated"} =>
        LET prefix == IF last.op = "emit_vector"
                      THEN emit_usize(len(last.value), last.before)
                      ELSE [out |-> last.before, res |-> Ok(0)]
            count == IF last.op = "emit_vector" THEN ULeb(Len(last.value)) ELSE <<>>
            k == Len(sink.emits)
        IN /\ (~prefix.res.ok => (sink.emits = <<>> /\ last.res = prefix.res))
           /\ ((prefix.res.ok /\ ~last.res.ok) =>
                 (/\ k >= 1
                  /\ \A i \in 1..(k - 1) : sink.emits[i].ok
                  /\ ~sink.emits[k].ok
                  /\ last.res = sink.emits[k]
                  /\ IsPrefix(last.before.buf \o count
                                  \o ItemEncodings(last.emit, SubSeq(last.value, 1, k - 1)),
                              sink.buf)))

-----------------------------------------------------------------------------
(* Two emitter calls in progress side by side, each on a sink of its own.   *)
(* A step is one Write::write call made by one of the two calls.            *)

VecSink == [script |-> <<>>, buf |-> <<>>, werr |-> 0, emits |-> <<>>]

\* A run of bytes a call hands to the sink: through write_all or through one
\* write, with its result propagated by `?` or dropped, and what the call adds
\* to its byte count once the run is through.
Chunk(data, all, checked, n) == [n |-> n, all |-> all, data |-> data, checked |-> checked]

\* crate::leb128 hands the bytes of an encoding to write_all one at a time
LebChunks(bytes) == [i \in 1..Len(bytes) |-> Chunk(<<bytes[i]>>, TRUE, TRUE, 1)]

RECURSIVE items_chunks(_, _)
items_chunks(emit, items) ==
    IF items = <<>> THEN <<>>
    ELSE LET item == Head(items)
         IN (CASE emit = "emit_byte" -> <<Chunk(<<item>>, FALSE, TRUE, 1)>>
               [] emit = "emit_u32" -> LebChunks(emit_u32(item, VecSink).out.buf)
               [] emit = "emit_f32" ->
                    <<Chunk(to_le_bytes(item), TRUE, FALSE, Len(to_le_bytes(item)))>>)
                \o items_chunks(emit, Tail(items))

\* the sink writes a call makes, in program order; write_all of no bytes makes none
chunks(call) ==
    CASE call.op = "emit_vector" ->
            LebChunks(emit_usize(len(call.value), VecSink).out.buf)
                \o items_chunks(call.emit, call.value)
      [] call.op = "emit_repeated" -> items_chunks(call.emit, call.value)
      [] call.op = "emit_bytes" ->
            (IF call.flag THEN LebChunks(emit_usize(len(call.value), VecSink).out.buf)
             ELSE <<>>)
                \o (IF call.value = <<>> THEN <<>>
                    ELSE <<Chunk(call.value, TRUE, TRUE, Len(call.value))>>)

\* the call run from start to end on its own
call_emitter(call, out) ==
    CASE call.op = "emit_vector" -> emit_vector(call.value, out, call.emit)
      [] call.op = "emit_repeated" -> emit_repeated(call.value, out, call.emit)
      [] call.op = "emit_bytes" -> emit_bytes(call.value, out, call.flag)

ConcCalls ==
    <<[value |-> [i \in 1..2 |-> U32Item(i)], emit |-> "emit_u32",
       op |-> "emit_vector", flag |-> FALSE],
      [value |-> [i \in 1..2 |-> ByteItem(i)], emit |-> "emit_byte",
       op |-> "emit_repeated", flag |-> FALSE],
      [value |-> [i \in 1..1 |-> F32Item(i)], emit |-> "emit_f32",
       op |-> "emit_vector", flag |-> FALSE],
      [value |-> [i \in 1..3 |-> ByteItem(i)], emit |-> "none",
       op |-> "emit_bytes", flag |-> TRUE]>>

\* the run of bytes at hand went through: count it and go on, or return Ok
finish_chunk(pr, out) ==
    LET bytes == pr.bytes + Head(pr.todo).n
        rest == Tail(pr.todo)
    IN [pr EXCEPT !.out = out, !.todo = rest,
                  !.rem = IF rest = <<>> THEN <<>> ELSE Head(rest).data,
                  !.bytes = bytes, !.done = (rest = <<>>),
                  !.res = IF rest = <<>> THEN Ok(bytes) ELSE @]

\* the sink of call p, had all calls been handed the first call's sink
output_shared(ps, p) == ps[1].out

\* output: &mut O, the sink call p was handed
output(ps, p) == ps[p].out

\* one Write::write call of call p, and what the call does with its answer
step(ps, p) ==
    LET pr == ps[p]
        c == Head(pr.todo)
        w == write(output(ps, p), pr.rem)
        \* `?` returns the error from the call
        failed == [pr EXCEPT !.out = w.out, !.done = TRUE,
                             !.res = IF w.res.ok THEN Err("WriteZero") ELSE w.res]
    IN IF ~c.all
       THEN IF w.res.ok THEN finish_chunk(pr, w.out) ELSE failed
       ELSE IF w.res.ok
            THEN IF w.res.n = 0
                 THEN IF c.checked THEN failed ELSE finish_chunk(pr, w.out)
                 ELSE IF w.res.n = Len(pr.rem) THEN finish_chunk(pr, w.out)
                      ELSE [pr EXCEPT !.out = w.out,
                                      !.rem = SubSeq(pr.rem, w.res.n + 1, Len(pr.rem))]
            ELSE IF w.res.err = "Interrupted" THEN [pr EXCEPT !.out = w.out]
                 ELSE IF c.checked THEN failed ELSE finish_chunk(pr, w.out)

InitConc ==
    /\ sink = VecSink
    /\ host \in WordSizes
    /\ last = NoCall
    /\ ncalls = 0
    /\ built = [op |-> "none"]
    /\ \E calls \in [{1, 2} -> DOMAIN ConcCalls],
          outs \in [{1, 2} -> [script : {<<>>, <<Accept(1), Accept(1)>>, <<Accept(0), Fail>>,
                                         <<Accept(1), Interrupted, Fail>>},
                               buf : {<<>>, <<170>>}, werr : {0}, emits : {<<>>}]] :
          \* a call as it starts on its sink: nothing written, nothing counted
          procs = [p |-> [k \in {1, 2} |->
                            LET todo == chunks(ConcCalls[calls[k]])
                            IN [out |-> outs[k], res |-> Ok(0), bytes |-> 0,
                                done |-> todo = <<>>, call |-> ConcCalls[calls[k]],
                                todo |-> todo,
                                rem |-> IF todo = <<>> THEN <<>> ELSE Head(todo).data,
                                start |-> outs[k]]],
                   lastp |-> 0, switches |-> 0]

StepProc(p) ==
    /\ ~procs.p[p].done
    /\ procs' = [p |-> [procs.p EXCEPT ![p] = step(procs.p, p)],
                 lastp |-> p,
                 switches |-> IF procs.lastp \in {0, p} THEN procs.switches
                              ELSE procs.switches + 1]
    /\ UNCHANGED <<sink, host, last, ncalls, built>>

NextConc == \E p \in {1, 2} : StepProc(p)

SpecConc == InitConc /\ [][NextConc]_vars

\* C11: two emitter calls on distinct sinks share no mutable state: however
\* their sink writes interleave, a call that has returned has left on its sink
\* exactly the bytes, and returned exactly the result, of the same call run on
\* its own from start to end on that sink.
C11_NoSharedState ==
    \A p \in {1, 2} :
        procs.p[p].done =>
            LET alone == call_emitter(procs.p[p].call, procs.p[p].start)
            IN /\ procs.p[p].res = alone.res
               /\ procs.p[p].out.buf = alone.out.buf
               /\ procs.p[p].out.script = alone.out.script
               /\ procs.p[p].out.werr = alone.out.werr

\* both calls returned, one with an error, after taking turns at least three times
C11_Witness ==
    /\ procs.p[1].done /\ procs.p[2].done
    /\ procs.switches >= 3
    /\ procs.p[1].res.ok /\ ~procs.p[2].res.ok
    /\ Len(procs.p[1].out.buf) > Len(procs.p[1].start.buf)
    /\ Len(procs.p[2].out.buf) > Len(procs.p[2].start.buf)

-----------------------------------------------------------------------------
(* src/src/model/instruction.rs *)

\* Option<T>
None == <<>>
Some(x) == <<x>>

\* an instruction: its family, its variant within the family, its immediates
Instr(family, op, imm) == [op |-> op, family |-> family, imm |-> imm]

\* the variants of each family's enum
Variants(family) ==
    CASE family = "Numeric" ->
            {"I32Constant", "I64Constant", "F32Constant", "F64Constant",
             "CountLeadingZeros", "CountTrailingZeros", "CountOnes", "AbsoluteValue",
             "Negate", "SquareRoot", "Ceiling", "Floor", "Truncate", "Nearest", "Add",
             "Subtract", "Multiply", "DivideInteger", "DivideFloat", "Remainder", "And",
             "Or", "Xor", "ShiftLeft", "ShiftRight", "RotateLeft", "RotateRight",
             "Minimum", "Maximum", "CopySign", "EqualToZero", "Equal", "NotEqual",
             "LessThanInteger", "LessThanFloat", "GreaterThanInteger", "GreaterThanFloat",
             "LessThanOrEqualToInteger", "LessThanOrEqualToFloat",
             "GreaterThanOrEqualToInteger", "GreaterThanOrEqualToFloat", "ExtendSigned8",
             "ExtendSigned16", "ExtendSigned32", "Wrap", "ExtendWithSignExtension",
             "ConvertAndTruncate", "ConvertAndTruncateWithSaturation", "Demote",
             "Promote", "Convert", "ReinterpretFloat", "ReinterpretInteger"}
      [] family = "Reference" -> {"Null", "IsNull", "Function"}
      [] family = "Parametric" -> {"Drop", "Select"}
      [] family = "Variable" ->
            {"LocalGet", "LocalSet", "LocalTee", "GlobalGet", "GlobalSet"}
      [] family = "Table" ->
            {"Get", "Set", "Size", "Grow", "Fill", "Copy", "Init", "ElementDrop"}
      [] family = "Memory" ->
            {"Load", "Store", "Load8", "Load16", "Load32", "Store8", "Store16",
             "Store32", "Size", "Grow", "Fill", "Copy", "Init", "DataDrop"}
      [] family = "Control" ->
            {"Nop", "Unreachable", "Block", "Loop", "If", "Branch", "BranchIf",
             "BranchTable", "Return", "Call", "CallIndirect"}
      [] OTHER -> {}

I32Constant(value) == Instr("Numeric", "I32Constant", <<value>>)
I64Constant(value) == Instr("Numeric", "I64Constant", <<value>>)
F32Constant(value) == Instr("Numeric", "F32Constant", <<value>>)
F64Constant(value) == Instr("Numeric", "F64Constant", <<value>>)

\* `value as u32`: the low bits of a value at least as wide, a
\* narrower value widened by the signedness of its own type
as_u32(value, signed) ==
    IF value.w >= 32 THEN SetBits(32, value.on \cap (0..31))
    ELSE IF signed THEN SignExtend(value, 32) ELSE ZeroExtend(value, 32)

\* From<i8> had the value been widened as an unsigned integer
from_i8_zero_extended(value) == I32Constant(as_u32(value, FALSE))

from_i8(value) == I32Constant(as_u32(value, TRUE))
from_i16(value) == I32Constant(as_u32(value, TRUE))
from_i32(value) == I32Constant(as_u32(value, TRUE))
from_i64(value) == I64Constant(SetBits(64, value.on \cap (0..63)))
from_u8(value) == I32Constant(as_u32(value, FALSE))
from_u16(value) == I32Constant(as_u32(value, FALSE))
from_u32(value) == I32Constant(value)
from_u64(value) == I64Constant(value)
from_usize(value) == I32Constant(as_u32(value, FALSE))
from_f32(value) == F32Constant(value)
from_f64(value) == F64Constant(value)

\* struct MemoryArgument { offset: u32, align: Option<u32> }
MemoryArgument_new(offset_, align_) == [offset |-> offset_, align |-> align_]

MemoryArgument_default == [offset |-> SetBits(32, {}), align |-> None]

MemoryArgument_default_align(offset_) == [offset |-> offset_, align |-> None]

\* default_offset had it stored its argument as the offset
MemoryArgument_default_offset_swapped(align_) == [offset |-> align_, align |-> None]

MemoryArgument_default_offset(align_) == [offset |-> SetBits(32, {}), align |-> Some(align_)]

offset(self) == self.offset
align(self) == self.align

\* struct Expression { instructions: Vec<Instruction> }
\* Expression::new had it closed the sequence with an end marker of its own
Expression_new_terminated(instructions_) ==
    [instructions |-> Append(instructions_, Instr("Control", "End", <<>>))]

Expression_new(instructions_) == [instructions |-> instructions_]

Expression_empty == [instructions |-> <<>>]

\* From<Vec<Instruction>> had it taken the instructions last to first
Expression_from_reversed(instructions_) ==
    [instructions |-> [i \in 1..Len(instructions_) |->
                            instructions_[Len(instructions_) + 1 - i]]]

Expression_from(instructions_) == [instructions |-> instructions_]

instructions(self) == self.instructions
is_empty(self) == Len(self.instructions) = 0
Expression_len(self) == len(self.instructions)

\* BlockType
BlockType_None == [kind |-> "None", imm |-> <<>>]
BlockType_Index(index) == [kind |-> "Index", imm |-> <<index>>]
BlockType_ValueType(type) == [kind |-> "ValueType", imm |-> <<type>>]

\* the variants used below, one or more of each of the seven families
IsNull == Instr("Reference", "IsNull", <<>>)
Drop == Instr("Parametric", "Drop", <<>>)
LocalGet(index) == Instr("Variable", "LocalGet", <<index>>)
TableSize(index) == Instr("Table", "Size", <<index>>)
Load(type, argument) == Instr("Memory", "Load", <<type, argument>>)
Store(type, argument) == Instr("Memory", "Store", <<type, argument>>)
MemorySize == Instr("Memory", "Size", <<>>)
Nop == Instr("Control", "Nop", <<>>)
Block(type, body) == Instr("Control", "Block", <<type, body>>)
Loop(type, body) == Instr("Control", "Loop", <<type, body>>)
If(type, positive, negative) == Instr("Control", "If", <<type, positive, negative>>)
BranchTable(labels, default) == Instr("Control", "BranchTable", <<labels, default>>)

-----------------------------------------------------------------------------
(* The instruction codec: every variant is an opcode byte followed by its   *)
(* immediates, a structured instruction closes with the end marker, the     *)
(* alternate of a conditional opens with the else marker. The end marker   *)
(* is the byte 11, the else marker the byte 5.                              *)

NumberTypes == <<"I32", "I64", "F32", "F64">>

\* the exponent of the access width of a number type: 4 bytes or 8 bytes
natural_alignment(type) ==
    IF type \in {"I32", "F32"} THEN SetBits(32, {1}) ELSE SetBits(32, {0, 1})

encode_block_type(type) ==
    CASE type.kind = "None" -> <<64>>
      [] type.kind = "ValueType" -> <<128 - (CHOOSE k \in 1..4 : NumberTypes[k] = type.imm[1])>>
      [] type.kind = "Index" -> emit_i64(ZeroExtend(type.imm[1], 64), VecSink).out.buf

\* offset, then alignment; an argument without an alignment of its own is
\* written with the alignment of the access width
encode_memory_argument(type, argument) ==
    emit_u32(offset(argument), VecSink).out.buf
        \o emit_u32(IF align(argument) = None THEN natural_alignment(type)
                    ELSE align(argument)[1], VecSink).out.buf

RECURSIVE encode_instruction(_), encode_instructions(_)
encode_instruction(i) ==
    LET variant == <<i.family, i.op>>
    IN CASE variant = <<"Numeric", "I32Constant">> ->
                <<65>> \o emit_i32(i.imm[1], VecSink).out.buf
         [] variant = <<"Numeric", "I64Constant">> ->
                <<66>> \o emit_i64(i.imm[1], VecSink).out.buf
         [] variant = <<"Numeric", "F32Constant">> ->
                <<67>> \o emit_f32(i.imm[1], VecSink).out.buf
         [] variant = <<"Numeric", "F64Constant">> ->
                <<68>> \o emit_f64(i.imm[1], VecSink).out.buf
         [] variant = <<"Reference", "IsNull">> -> <<209>>
         [] variant = <<"Parametric", "Drop">> -> <<26>>
         [] variant = <<"Variable", "LocalGet">> ->
                <<32>> \o emit_u32(i.imm[1], VecSink).out.buf
         [] variant = <<"Table", "Size">> ->
                <<252>> \o emit_u32(SetBits(32, {4}), VecSink).out.buf
                    \o emit_u32(i.imm[1], VecSink).out.buf
         [] variant = <<"Memory", "Load">> ->
                <<39 + (CHOOSE k \in 1..4 : NumberTypes[k] = i.imm[1])>>
                    \o encode_memory_argument(i.imm[1], i.imm[2])
         [] variant = <<"Memory", "Store">> ->
                <<53 + (CHOOSE k \in 1..4 : NumberTypes[k] = i.imm[1])>>
                    \o encode_memory_argument(i.imm[1], i.imm[2])
         [] variant = <<"Memory", "Size">> -> <<63, 0>>
         [] variant = <<"Control", "Nop">> -> <<1>>
         [] variant = <<"Control", "Block">> ->
                <<2>> \o encode_block_type(i.imm[1])
                    \o encode_instructions(i.imm[2].instructions) \o <<11>>
         [] variant = <<"Control", "Loop">> ->
                <<3>> \o encode_block_type(i.imm[1])
                    \o encode_instructions(i.imm[2].instructions) \o <<11>>
         [] variant = <<"Control", "If">> ->
                <<4>> \o encode_block_type(i.imm[1])
                    \o encode_instructions(i.imm[2].instructions)
                    \o (IF i.imm[3] = None THEN <<>>
                        ELSE <<5>> \o encode_instructions(i.imm[3][1].instructions))
                    \o <<11>>
         [] variant = <<"Control", "BranchTable">> ->
                <<14>> \o emit_vector(i.imm[1], VecSink, "emit_u32").out.buf
                    \o emit_u32(i.imm[2], VecSink).out.buf

\* a sequence, and with it a bare expression, carries no terminator
encode_instructions(instrs) ==
    IF instrs = <<>> THEN <<>>
    ELSE encode_instruction(Head(instrs)) \o encode_instructions(Tail(instrs))

Decoded(value, rest) == [ok |-> TRUE, err |-> "none", rest |-> rest, value |-> value]
Malformed(err) == [ok |-> FALSE, err |-> err, rest |-> <<>>, value |-> <<>>]

\* `let x = result?; then(x)`: the result is computed once, an error returns
\* from the decoder as it is
and_then(result, then(_)) ==
    CHOOSE r \in {IF x.ok THEN then(x) ELSE x : x \in {result}} : TRUE

RECURSIVE decode_unsigned_from(_, _, _, _)
decode_unsigned_from(bytes, width, shift, seen) ==
    IF bytes = <<>> THEN Malformed("UnexpectedEndOfInput")
    ELSE LET byte == Head(bytes)
             group == {shift + j : j \in {k \in 0..6 : (byte \div (2 ^ k)) % 2 = 1}}
         IN IF \E b \in group : b >= width THEN Malformed("MalformedInteger")
            ELSE IF byte < 128 THEN Decoded(SetBits(width, seen \cup group), Tail(bytes))
            ELSE IF shift + 7 >= width THEN Malformed("MalformedInteger")
            ELSE decode_unsigned_from(Tail(bytes), width, shift + 7, seen \cup group)

RECURSIVE decode_signed_from(_, _, _, _)
decode_signed_from(bytes, width, shift, seen) ==
    IF bytes = <<>> THEN Malformed("UnexpectedEndOfInput")
    ELSE LET byte == Head(bytes)
             group == {shift + j : j \in {k \in 0..6 : (byte \div (2 ^ k)) % 2 = 1}}
         IN IF byte >= 128
            THEN IF shift + 7 >= width THEN Malformed("MalformedInteger")
                 ELSE decode_signed_from(Tail(bytes), width, shift + 7, seen \cup group)
            ELSE LET negative == (shift + 6) \in group
                     bits == (seen \cup group
                                \cup (IF negative THEN (shift + 7)..(width - 1) ELSE {}))
                                \cap (0..(width - 1))
                     fits == \A b \in shift..(shift + 6) :
                                b >= width => ((b \in group) <=> ((width - 1) \in bits))
                 IN IF fits THEN Decoded(SetBits(width, bits), Tail(bytes))
                    ELSE Malformed("MalformedInteger")

\* f32::from_le_bytes, f64::from_le_bytes of the first width / 8 bytes
decode_float(bytes, width) ==
    IF Len(bytes) < width \div 8 THEN Malformed("UnexpectedEndOfInput")
    ELSE Decoded(SetBits(width, {b \in 0..(width - 1) :
                                    (bytes[(b \div 8) + 1] \div (2 ^ (b % 8))) % 2 = 1}),
                 SubSeq(bytes, width \div 8 + 1, Len(bytes)))

decode_block_type(bytes) ==
    IF bytes = <<>> THEN Malformed("UnexpectedEndOfInput")
    ELSE IF Head(bytes) = 64 THEN Decoded(BlockType_None, Tail(bytes))
    ELSE IF Head(bytes) \in 124..127
         THEN Decoded(BlockType_ValueType(NumberTypes[128 - Head(bytes)]), Tail(bytes))
    ELSE and_then(decode_signed_from(bytes, 64, 0, {}), LAMBDA index :
            IF ~(index.value.on \subseteq 0..31) THEN Malformed("MalformedInteger")
            ELSE Decoded(BlockType_Index(SetBits(32, index.value.on)), index.rest))

\* How a decoder fabricates the MemoryArgument of a decoded alignment: always
\* with the alignment it read ("explicit"), or without one when it read the
\* alignment of the access width ("derived").
decode_memory_argument(bytes, type, mode) ==
    and_then(decode_unsigned_from(bytes, 32, 0, {}), LAMBDA o :
        and_then(decode_unsigned_from(o.rest, 32, 0, {}), LAMBDA a :
            Decoded(MemoryArgument_new(o.value,
                        IF mode = "derived" /\ a.value = natural_alignment(type)
                        THEN None ELSE Some(a.value)),
                    a.rest)))

\* exactly count label indices; a vector is a count, then that many items, and
\* a count beyond what the input can hold runs out of input
RECURSIVE decode_labels(_, _, _)
decode_labels(bytes, count, labels) ==
    IF count = 0 THEN Decoded(labels, bytes)
    ELSE and_then(decode_unsigned_from(bytes, 32, 0, {}), LAMBDA label :
            decode_labels(label.rest, count - 1, Append(labels, label.value)))

\* the instructions up to the end of input (a bare expression) or up to the
\* marker that closes them (inside a structured instruction)
RECURSIVE decode_instruction(_, _), decode_sequence(_, _, _), decode_structured(_, _, _)
decode_sequence(bytes, nested, mode) ==
    IF bytes = <<>>
    THEN IF nested THEN Malformed("UnexpectedEndOfInput")
         ELSE [Decoded(<<>>, <<>>) EXCEPT !.err = "eof"]
    ELSE IF Head(bytes) \in {11, 5}
    THEN IF nested
         THEN [Decoded(<<>>, Tail(bytes)) EXCEPT
                    !.err = IF Head(bytes) = 11 THEN "end" ELSE "else"]
         ELSE Malformed("UnknownOpcode")
    ELSE and_then(decode_instruction(bytes, mode), LAMBDA i :
            and_then(decode_sequence(i.rest, nested, mode), LAMBDA more :
                [more EXCEPT !.value = <<i.value>> \o @]))

decode_structured(opcode, bytes, mode) ==
    and_then(decode_block_type(bytes), LAMBDA type :
        and_then(decode_sequence(type.rest, TRUE, mode), LAMBDA body :
            IF body.err = "end"
            THEN Decoded(CASE opcode = 2 -> Block(type.value, Expression_new(body.value))
                           [] opcode = 3 -> Loop(type.value, Expression_new(body.value))
                           [] OTHER -> If(type.value, Expression_new(body.value), None),
                         body.rest)
            ELSE IF opcode # 4 THEN Malformed("UnknownOpcode")
            ELSE and_then(decode_sequence(body.rest, TRUE, mode), LAMBDA negative :
                    IF negative.err # "end" THEN Malformed("UnknownOpcode")
                    ELSE Decoded(If(type.value, Expression_new(body.value),
                                    Some(Expression_new(negative.value))),
                                 negative.rest))))

decode_instruction(bytes, mode) ==
    IF bytes = <<>> THEN Malformed("UnexpectedEndOfInput")
    ELSE LET opcode == Head(bytes)
             rest == Tail(bytes)
         IN CASE opcode = 1 -> Decoded(Nop, rest)
              [] opcode \in {2, 3, 4} -> decode_structured(opcode, rest, mode)
              [] opcode = 14 ->
                    and_then(decode_unsigned_from(rest, 32, 0, {}), LAMBDA count :
                        IF ~(count.value.on \subseteq 0..7)
                        THEN Malformed("UnexpectedEndOfInput")
                        ELSE and_then(decode_labels(count.rest, Field(count.value, 0, 8), <<>>),
                                LAMBDA labels :
                                and_then(decode_unsigned_from(labels.rest, 32, 0, {}),
                                    LAMBDA default :
                                    Decoded(BranchTable(labels.value, default.value),
                                            default.rest))))
              [] opcode = 26 -> Decoded(Drop, rest)
              [] opcode = 32 ->
                    and_then(decode_unsigned_from(rest, 32, 0, {}), LAMBDA local :
                        Decoded(LocalGet(local.value), local.rest))
              [] opcode \in 40..43 ->
                    and_then(decode_memory_argument(rest, NumberTypes[opcode - 39], mode),
                        LAMBDA argument :
                        Decoded(Load(NumberTypes[opcode - 39], argument.value), argument.rest))
              [] opcode \in 54..57 ->
                    and_then(decode_memory_argument(rest, NumberTypes[opcode - 53], mode),
                        LAMBDA argument :
                        Decoded(Store(NumberTypes[opcode - 53], argument.value), argument.rest))
              [] opcode = 63 ->
                    IF rest = <<>> THEN Malformed("UnexpectedEndOfInput")
                    ELSE IF Head(rest) # 0 THEN Malformed("UnknownOpcode")
                    ELSE Decoded(MemorySize, Tail(rest))
              [] opcode = 65 ->
                    and_then(decode_signed_from(rest, 32, 0, {}), LAMBDA value :
                        Decoded(I32Constant(value.value), value.rest))
              [] opcode = 66 ->
                    and_then(decode_signed_from(rest, 64, 0, {}), LAMBDA value :
                        Decoded(I64Constant(value.value), value.rest))
              [] opcode = 67 ->
                    and_then(decode_float(rest, 32), LAMBDA value :
                        Decoded(F32Constant(value.value), value.rest))
              [] opcode = 68 ->
                    and_then(decode_float(rest, 64), LAMBDA value :
                        Decoded(F64Constant(value.value), value.rest))
              [] opcode = 209 -> Decoded(IsNull, rest)
              [] opcode = 252 ->
                    and_then(decode_unsigned_from(rest, 32, 0, {}), LAMBDA sub :
                        IF sub.value # SetBits(32, {4}) THEN Malformed("UnknownOpcode")
                        ELSE and_then(decode_unsigned_from(sub.rest, 32, 0, {}), LAMBDA table :
                                Decoded(TableSize(table.value), table.rest)))
              [] OTHER -> Malformed("UnknownOpcode")

decode_expression(bytes, mode) ==
    and_then(decode_sequence(bytes, FALSE, mode), LAMBDA body :
        Decoded(Expression_new(body.value), body.rest))

-----------------------------------------------------------------------------
(* Model values constructed bottom-up: leaves before the container *)

MaxDepth == 3

\* how deep structured instructions nest inside an expression
RECURSIVE Depth(_), DepthFrom(_, _)
Depth(expression) == DepthFrom(expression.instructions, 0)
DepthFrom(instrs, deepest) ==
    IF instrs = <<>> THEN deepest
    ELSE LET i == Head(instrs)
             d == IF i.op \notin {"Block", "Loop", "If"} THEN 0
                  ELSE 1 + Max(Depth(i.imm[2]),
                               IF i.op = "If" /\ i.imm[3] # None
                               THEN Depth(i.imm[3][1]) ELSE 0)
         IN DepthFrom(Tail(instrs), Max(deepest, d))

\* 8 with the natural alignment of f64, 0 with the default alignment, 3 with
\* the alignment 8 the doc test of MemoryInstruction gives
Arguments ==
    <<MemoryArgument_new(SetBits(32, {3}), Some(SetBits(32, {0, 1}))),
      MemoryArgument_default,
      MemoryArgument_default_align(SetBits(32, {0, 1})),
      MemoryArgument_default_offset(SetBits(32, {3}))>>

\* runs of plain instructions
LeafSeqs ==
    <<<<>>,
      <<from_i32(SetBits(32, {})), from_i64(SetBits(64, 0..63)), Drop,
        from_f32(SetBits(32, 23..29))>>,
      <<LocalGet(SetBits(32, {0})), Load("I32", Arguments[2]),
        Store("F64", Arguments[1]), IsNull>>,
      <<TableSize(SetBits(32, {})), Load("I64", Arguments[3]),
        Store("F64", Arguments[4]), MemorySize,
        BranchTable(<<SetBits(32, {0}), SetBits(32, {7})>>, SetBits(32, {}))>>>>

\* instruction sequences with a structured instruction around the expression
\* built before
Around(body) ==
    <<<<Block(BlockType_None, body)>>,
      <<LocalGet(SetBits(32, {1})), Loop(BlockType_Index(SetBits(32, {0, 2})), body), Drop>>,
      <<from_i32(SetBits(32, 0..31)), If(BlockType_ValueType("I32"), body, None),
        Store("I32", Arguments[2])>>,
      <<If(BlockType_None, Expression_new(<<Nop>>), Some(body)),
        BranchTable(<<>>, SetBits(32, {1}))>>,
      <<Load("F32", Arguments[4]), Block(BlockType_ValueType("F64"), body),
        from_f64(SetBits(64, {0} \cup (51..62)))>>,
      <<If(BlockType_Index(SetBits(32, {})), body, Some(Expression_empty)), IsNull>>>>

Built(op, args, value) ==
    /\ built' = [value |-> value, op |-> op, args |-> args]
    /\ UNCHANGED <<sink, host, last, ncalls, procs>>

FromI8 == \E v \in {NatToBits(n, 8) : n \in 0..255} : Built("from_i8", v, from_i8(v))
FromU8 == \E v \in {NatToBits(n, 8) : n \in 0..255} : Built("from_u8", v, from_u8(v))
FromI16 == \E v \in SignedBoundaries(16) : Built("from_i16", v, from_i16(v))
FromU16 == \E v \in UnsignedBoundaries(16) : Built("from_u16", v, from_u16(v))
FromI32 == \E v \in SignedBoundaries(32) : Built("from_i32", v, from_i32(v))
FromU32 == \E v \in UnsignedBoundaries(32) : Built("from_u32", v, from_u32(v))
FromI64 == \E v \in SignedBoundaries(64) : Built("from_i64", v, from_i64(v))
FromU64 == \E v \in UnsignedBoundaries(64) : Built("from_u64", v, from_u64(v))
FromUsize == \E v \in UnsignedBoundaries(host) : Built("from_usize", v, from_usize(v))

MemoryArgumentNew == \E o \in U32Values, a \in {None} \cup {Some(x) : x \in U32Values} :
    Built("MemoryArgument::new", <<o, a>>, MemoryArgument_new(o, a))

MemoryArgumentDefault ==
    Built("MemoryArgument::default", <<>>, MemoryArgument_default)

MemoryArgumentDefaultAlign == \E o \in UnsignedBoundaries(32) :
    Built("MemoryArgument::default_align", <<o>>, MemoryArgument_default_align(o))

MemoryArgumentDefaultOffset == \E a \in UnsignedBoundaries(32) :
    Built("MemoryArgument::default_offset", <<a>>, MemoryArgument_default_offset(a))

ExpressionNew == \E i \in DOMAIN LeafSeqs :
    Built("Expression::new", LeafSeqs[i], Expression_new(LeafSeqs[i]))

ExpressionNewAround == \E j \in DOMAIN Around(Expression_empty) :
    /\ built.op \in {"Expression::new", "Expression::from", "Expression::empty"}
    /\ Depth(built.value) < MaxDepth
    /\ Built("Expression::new", Around(built.value)[j],
             Expression_new(Around(built.value)[j]))

ExpressionFrom == \E i \in DOMAIN LeafSeqs :
    Built("Expression::from", LeafSeqs[i], Expression_from(LeafSeqs[i]))

ExpressionEmpty == Built("Expression::empty", <<>>, Expression_empty)

\* the expression built last is encoded and the bytes are decoded again
RoundTrip == \E mode \in {"explicit", "derived"} :
    /\ built.op \in {"Expression::new", "Expression::from", "Expression::empty"}
    /\ Built("round_trip", <<built.value, mode>>,
             decode_expression(encode_instructions(instructions(built.value)), mode))

InitModel ==
    /\ sink = VecSink
    /\ host \in WordSizes
    /\ last = NoCall
    /\ ncalls = 0
    /\ procs = <<>>
    /\ built = [op |-> "none"]

NextModel ==
    \/ FromI8
    \/ FromU8
    \/ FromI16
    \/ FromU16
    \/ FromI32
    \/ FromU32
    \/ FromI64
    \/ FromU64
    \/ FromUsize
    \/ MemoryArgumentNew
    \/ MemoryArgumentDefault
    \/ MemoryArgumentDefaultAlign
    \/ MemoryArgumentDefaultOffset

SpecModel == InitModel /\ [][NextModel]_vars

NextTree ==
    \/ ExpressionNew
    \/ ExpressionNewAround
    \/ ExpressionFrom
    \/ ExpressionEmpty
    \/ RoundTrip

SpecTree == InitModel /\ [][NextTree]_vars

-----------------------------------------------------------------------------
(* Claims on the instruction model *)

PromotionOps ==
    {"from_i8", "from_i16", "from_i32", "from_i64",
     "from_u8", "from_u16", "from_u32", "from_u64", "from_usize"}

MemoryArgumentOps ==
    {"MemoryArgument::new", "MemoryArgument::default",
     "MemoryArgument::default_align", "MemoryArgument::default_offset"}

\* C12: for every Instruction / Expression tree of the model, all seven
\* families and nested Block, Loop and If with or without alternate, decoding
\* the bytes of its encoding gives back a tree equal to the original.
C12_RoundTrip ==
    built.op = "round_trip" =>
        /\ built.value.ok
        /\ built.value.rest = <<>>
        /\ built.value.value = built.args[1]

\* C13: promoting an integer literal never fails and only changes its width:
\* i8, i16, i32, u8, u16, u32 become Numeric(I32Constant) holding the value's
\* 32-bit two's-complement pattern (signed values sign-extended, unsigned ones
\* zero-extended), i64 and u64 become Numeric(I64Constant) holding the 64-bit
\* pattern, usize becomes Numeric(I32Constant) holding the value modulo 2^32.
C13_LiteralPromotion ==
    built.op \in PromotionOps =>
        LET literal == built.args
            signed == built.op \in {"from_i8", "from_i16", "from_i32", "from_i64"}
            target == IF built.op \in {"from_i64", "from_u64"} THEN 64 ELSE 32
            held == built.value.imm[1]
        IN /\ built.value.family = "Numeric"
           /\ built.value.op = (IF target = 64 THEN "I64Constant" ELSE "I32Constant")
           /\ Len(built.value.imm) = 1
           /\ held.w = target
           /\ held.on \subseteq 0..(target - 1)
           /\ \A j \in 0..(target - 1) :
                 BitAt(held, j) = (IF signed THEN SignedBitAt(literal, j)
                                   ELSE BitAt(literal, j))

\* a negative i8 was promoted
C13_Witness ==
    /\ built.op = "from_i8"
    /\ 7 \in built.args.on
    /\ built.args.on # 0..7

\* C14: a MemoryArgument built without an explicit alignment carries an
\* alignment derived from the access width: no MemoryArgument that was built
\* holds an unspecified alignment.
C14_DerivedAlignment ==
    built.op \in MemoryArgumentOps => align(built.value) # None

\* C15: the accessors of a MemoryArgument return what its constructor was
\* given: new(o, a) has offset o and alignment a, default_align(o) has offset o
\* and no alignment, default_offset(a) has offset 0 and alignment Some(a) and
\* equals new(0, Some(a)), default() has offset 0 and no alignment.
C15_Accessors ==
    LET zero == SetBits(32, {})
    IN /\ (built.op = "MemoryArgument::new" =>
            (/\ offset(built.value) = built.args[1]
             /\ align(built.value) = built.args[2]))
       /\ (built.op = "MemoryArgument::default_align" =>
            (/\ offset(built.value) = built.args[1]
             /\ align(built.value) = None))
       /\ (built.op = "MemoryArgument::default_offset" =>
            (/\ offset(built.value) = zero
             /\ align(built.value) = Some(built.args[1])
             /\ built.value = MemoryArgument_new(zero, Some(built.args[1]))))
       /\ (built.op = "MemoryArgument::default" =>
            (/\ offset(built.value) = zero
             /\ align(built.value) = None))

\* default_offset was called with u32::MAX
C15_Witness ==
    /\ built.op = "MemoryArgument::default_offset"
    /\ built.args[1].on = 0..31

\* every instruction of an expression, those nested in Block, Loop and If included
RECURSIVE Nested(_), NestedFrom(_)
Nested(expression) == NestedFrom(expression.instructions)
NestedFrom(instrs) ==
    IF instrs = <<>> THEN {}
    ELSE LET i == Head(instrs)
         IN {[op |-> i.op, family |-> i.family]}
                \cup (IF i.op \in {"Block", "Loop", "If"} /\ i.family = "Control"
                      THEN Nested(i.imm[2]) ELSE {})
                \cup (IF i.op = "If" /\ i.family = "Control" /\ i.imm[3] # None
                      THEN Nested(i.imm[3][1]) ELSE {})
                \cup NestedFrom(Tail(instrs))

Markers == {"End", "Else"}

\* C16: no expression made by Expression::new, Expression::empty or
\* From<Vec<Instruction>> holds, at any depth inside Block, Loop or If, an
\* element standing for the end marker or the else marker: every element is a
\* variant of the Instruction model, which has no such variant, the expression
\* holds the instructions it was given and nothing more, and the alternate of
\* an If is the optional second expression only.
C16_NoTerminatorStored ==
    built.op \in {"Expression::new", "Expression::from", "Expression::empty"} =>
        /\ \A f \in {"Numeric", "Reference", "Parametric", "Variable", "Table",
                     "Memory", "Control"} : Variants(f) \cap Markers = {}
        /\ \A i \in Nested(built.value) : i.op \in Variants(i.family) /\ i.op \notin Markers
        /\ Len(built.value.instructions) = Len(built.args)

\* a block holding a loop holding a conditional with an alternate was built
C16_Witness ==
    /\ built.op = "Expression::new"
    /\ \E b \in 1..Len(built.value.instructions) :
          LET block == built.value.instructions[b]
          IN /\ block.op = "Block"
             /\ \E l \in 1..Len(block.imm[2].instructions) :
                   LET loop == block.imm[2].instructions[l]
                   IN /\ loop.op = "Loop"
                      /\ \E c \in 1..Len(loop.imm[2].instructions) :
                            /\ loop.imm[2].instructions[c].op = "If"
                            /\ loop.imm[2].instructions[c].imm[3] # None

====
